---- MODULE Spec2Model ----
(***************************************************************************)
(* Model of qwen_report.py: the file grouper                               *)
(* (group_files_by_turbine_blade), the prompt builder of                   *)
(* generate_blade_report and the batch loop of                             *)
(* process_turbine_data_to_html.                                           *)
(*                                                                         *)
(* File names, paths and identifiers are Python strings; they are modelled *)
(* as sequences of one-character strings so that the regular expression,   *)
(* str.lower, str.endswith, sorted and os.path.join are computed character *)
(* by character.                                                           *)
(***************************************************************************)
EXTENDS Integers, Sequences, FiniteSets, TLC

VARIABLES
  fs,             \* the file system: directory path -> [kind, entries]
  output,         \* the file at output_file: [exists, content]
  opens,          \* how many times output_file was opened for writing
  pc,             \* position in process_turbine_data_to_html
  groups,         \* the dict file_groups, in insertion order
  idx,            \* position of the for loop in groups.items()
  html_sections,  \* the list html_sections
  calls,          \* the calls of generate_blade_report made so far
  skipped,        \* how many times the loop took the 'continue' branch
  error           \* what exception ended the run, "none" if none

vars == <<fs, output, opens, pc, groups, idx, html_sections, calls, skipped, error>>

----------------------------------------------------------------------------
\* Bounds of the model

\* most entries a listed RGB directory holds (the spec's scenario is added)
MaxRgbFiles == 2

\* most entries a listed thermal directory holds
MaxThermalFiles == 2

----------------------------------------------------------------------------
\* Python strings

Digits == <<"0","1","2","3","4","5","6","7","8","9">>

Upper ==
  <<"A","B","C","D","E","F","G","H","I","J","K","L","M",
    "N","O","P","Q","R","S","T","U","V","W","X","Y","Z">>

Lower ==
  <<"a","b","c","d","e","f","g","h","i","j","k","l","m",
    "n","o","p","q","r","s","t","u","v","w","x","y","z">>

DigitChars == { Digits[i] : i \in 1..Len(Digits) }

UpperChars == { Upper[i] : i \in 1..Len(Upper) }

LowerChars == { Lower[i] : i \in 1..Len(Lower) }

IsDigit(c) == c \in DigitChars

IsUpper(c) == c \in UpperChars

IsLower(c) == c \in LowerChars

IndexIn(s, c) == CHOOSE i \in 1..Len(s) : s[i] = c

\* the code point of a character (ASCII), which is what sorted() compares
ord(c) ==
  IF IsDigit(c) THEN 47 + IndexIn(Digits, c)
  ELSE IF IsUpper(c) THEN 64 + IndexIn(Upper, c)
  ELSE IF IsLower(c) THEN 96 + IndexIn(Lower, c)
  ELSE IF c = "-" THEN 45
  ELSE IF c = "." THEN 46
  ELSE IF c = "/" THEN 47
  ELSE IF c = "_" THEN 95
  ELSE 32

\* str.lower()
lower(s) ==
  [i \in 1..Len(s) |->
     IF IsUpper(s[i]) THEN Lower[IndexIn(Upper, s[i])] ELSE s[i]]

\* str.endswith(suffix)
endswith(s, suffix) ==
  /\ Len(s) >= Len(suffix)
  /\ SubSeq(s, Len(s) - Len(suffix) + 1, Len(s)) = suffix

\* str(n) of a non-negative integer below 100
str(n) ==
  IF n < 10 THEN <<Digits[n + 1]>>
  ELSE <<Digits[(n \div 10) + 1], Digits[(n % 10) + 1]>>

\* a < b for Python strings: lexicographic by code point
StrLess(a, b) ==
  \E k \in 1..(Len(a) + 1) :
    /\ \A j \in 1..(k - 1) : j <= Len(b) /\ a[j] = b[j]
    /\ k <= Len(b)
    /\ (k > Len(a) \/ ord(a[k]) < ord(b[k]))

\* sorted(os.listdir(d)) puts the reverse order here
RECURSIVE sorted_reversed(_)
sorted_reversed(S) ==
  IF S = {} THEN <<>>
  ELSE LET m == CHOOSE x \in S : \A y \in S : y = x \/ StrLess(y, x)
       IN  <<m>> \o sorted_reversed(S \ {m})

\* sorted(names): the names in ascending order
RECURSIVE sorted(_)
sorted(S) ==
  IF S = {} THEN <<>>
  ELSE LET m == CHOOSE x \in S : \A y \in S : y = x \/ StrLess(x, y)
       IN  <<m>> \o sorted(S \ {m})

\* os.path.join(d, fname) for a directory path without a trailing separator
\* and an entry name, which holds no separator
join(d, fname) == d \o <<"/">> \o fname

----------------------------------------------------------------------------
\* The inputs: directory paths, entry names, model outputs

rgb_dir == <<"r","g","b">>

thermal_dir == <<"t","h","r">>

\* "Turbine-2_A_PS_sequence_13.jpg"
Name_seq13_jpg ==
  <<"T","u","r","b","i","n","e","-","2","_","A","_","P","S","_","s","e","q","u","e","n","c","e","_","1","3",".","j","p","g">>

\* "Turbine-2_A_PS_sequence_14.png"
Name_seq14_png ==
  <<"T","u","r","b","i","n","e","-","2","_","A","_","P","S","_","s","e","q","u","e","n","c","e","_","1","4",".","p","n","g">>

\* "random.jpg"
Name_random_jpg ==
  <<"r","a","n","d","o","m",".","j","p","g">>

\* "Turbine-2_A_thermal_01.jpg"
Name_thermal01_jpg ==
  <<"T","u","r","b","i","n","e","-","2","_","A","_","t","h","e","r","m","a","l","_","0","1",".","j","p","g">>

\* "Turbine-6_A_1.JPG"
Name_t6_JPG ==
  <<"T","u","r","b","i","n","e","-","6","_","A","_","1",".","J","P","G">>

\* "Turbine-2_AB_x.jpg"
Name_label_AB ==
  <<"T","u","r","b","i","n","e","-","2","_","A","B","_","x",".","j","p","g">>

\* "Turbine-2_1_x.jpg"
Name_label_1 ==
  <<"T","u","r","b","i","n","e","-","2","_","1","_","x",".","j","p","g">>

\* "Turbine-10_B.png"
Name_t10_png ==
  <<"T","u","r","b","i","n","e","-","1","0","_","B",".","p","n","g">>

\* "Turbine-2_A_3.txt"
Name_txt ==
  <<"T","u","r","b","i","n","e","-","2","_","A","_","3",".","t","x","t">>

\* "Turbine-2_ab.png"
Name_label_ab ==
  <<"T","u","r","b","i","n","e","-","2","_","a","b",".","p","n","g">>

\* the entry names an RGB directory may hold
RgbNames ==
  { Name_seq13_jpg, Name_random_jpg, Name_t6_JPG, Name_label_AB,
    Name_label_1, Name_t10_png, Name_txt, Name_label_ab }

\* the entry names a thermal directory may hold
ThermalNames ==
  { Name_thermal01_jpg, Name_seq13_jpg, Name_random_jpg, Name_t6_JPG,
    Name_t10_png }

\* the RGB directory of the spec's concrete scenario
ScenarioRgb == { Name_seq13_jpg, Name_seq14_png, Name_random_jpg }

\* the thermal directory of the spec's concrete scenario
ScenarioThermal == { Name_thermal01_jpg }

\* what a path can be: a directory with entries, a regular file, or nothing
DirOf(entries) == [kind |-> "dir", entries |-> entries]

NotADir == { [kind |-> "absent", entries |-> {}],
             [kind |-> "file", entries |-> {}] }

RgbStates ==
  NotADir \cup { DirOf(ScenarioRgb) }
          \cup { DirOf(S) : S \in { T \in SUBSET RgbNames :
                                      Cardinality(T) <= MaxRgbFiles } }

ThermalStates ==
  NotADir \cup { DirOf(S) : S \in { T \in SUBSET ThermalNames :
                                      Cardinality(T) <= MaxThermalFiles } }

----------------------------------------------------------------------------
\* group_files_by_turbine_blade

\* os.path.isdir(d) answering True for every path
isdir_always(d) == TRUE

\* os.path.isdir(d)
isdir(d) == fs[d].kind = "dir"

\* os.listdir(d) raises unless d is a directory
listdir_raises(d) == fs[d].kind # "dir"

\* os.listdir(d), in no particular order
listdir(d) == fs[d].entries

\* the extension filter accepting every name
is_image_any(fname) == TRUE

\* fname.lower().endswith(".jpg") or fname.lower().endswith(".png")
is_image(fname) ==
  \/ endswith(lower(fname), <<".","j","p","g">>)
  \/ endswith(lower(fname), <<".","p","n","g">>)

TurbineLiteral == <<"T","u","r","b","i","n","e","-">>

\* the longest run of digits of s that starts at position from
DigitRun(s, from) ==
  LET ks == { k \in 0..(Len(s) - from + 1) :
                \A j \in 0..(k - 1) : IsDigit(s[from + j]) }
  IN  CHOOSE k \in ks : \A other \in ks : other <= k

\* the pattern with the blade label class widened to [A-Z0-9]
pattern_match_alnum(fname) ==
  IF Len(fname) >= Len(TurbineLiteral)
     /\ SubSeq(fname, 1, Len(TurbineLiteral)) = TurbineLiteral
  THEN LET first == Len(TurbineLiteral) + 1
           run == DigitRun(fname, first)
           js == { j \in 1..run :
                     /\ first + j + 1 <= Len(fname)
                     /\ fname[first + j] = "_"
                     /\ (IsUpper(fname[first + j + 1])
                         \/ IsDigit(fname[first + j + 1])) }
       IN  IF js = {} THEN <<>>
           ELSE LET j == CHOOSE x \in js : \A y \in js : y <= x
                IN  SubSeq(fname, 1, first + j + 1)
  ELSE <<>>

\* re.compile(r"^(Turbine-\d+_[A-Z])").match(fname): group(1), or <<>> when
\* there is no match. \d+ is greedy and gives digits back until "_[A-Z]"
\* follows; nothing is required after the letter.
pattern_match(fname) ==
  IF Len(fname) >= Len(TurbineLiteral)
     /\ SubSeq(fname, 1, Len(TurbineLiteral)) = TurbineLiteral
  THEN LET first == Len(TurbineLiteral) + 1
           run == DigitRun(fname, first)
           js == { j \in 1..run :
                     /\ first + j + 1 <= Len(fname)
                     /\ fname[first + j] = "_"
                     /\ IsUpper(fname[first + j + 1]) }
       IN  IF js = {} THEN <<>>
           ELSE LET j == CHOOSE x \in js : \A y \in js : y <= x
                IN  SubSeq(fname, 1, first + j + 1)
  ELSE <<>>

\* the position of key prefix in the dict, 0 when it is not a key
KeyIndex(file_groups, prefix) ==
  IF \E k \in 1..Len(file_groups) : file_groups[k].prefix = prefix
  THEN CHOOSE k \in 1..Len(file_groups) : file_groups[k].prefix = prefix
  ELSE 0

\* file_groups.setdefault(prefix, {"rgb": [], "thermal": []})
setdefault(file_groups, prefix) ==
  IF KeyIndex(file_groups, prefix) = 0
  THEN Append(file_groups,
              [prefix |-> prefix, rgb |-> <<>>, thermal |-> <<>>])
  ELSE file_groups

\* the append going to the "rgb" list whatever the directory
append_path_rgb(file_groups, prefix, modality, path) ==
  [file_groups EXCEPT ![KeyIndex(file_groups, prefix)].rgb = Append(@, path)]

\* file_groups[prefix][modality].append(path)
append_path(file_groups, prefix, modality, path) ==
  [file_groups EXCEPT
     ![KeyIndex(file_groups, prefix)][modality] = Append(@, path)]

\* the loop body with the key created before the extension filter
scan_entry_key_first(file_groups, d, fname, modality) ==
  LET prefix == pattern_match(fname)
  IN  IF prefix # <<>>
      THEN IF is_image(fname)
           THEN append_path(setdefault(file_groups, prefix), prefix,
                            modality, join(d, fname))
           ELSE setdefault(file_groups, prefix)
      ELSE file_groups

\* the body of one 'for fname in sorted(os.listdir(d))' iteration
scan_entry(file_groups, d, fname, modality) ==
  IF is_image(fname)
  THEN LET prefix == pattern_match(fname)
       IN  IF prefix # <<>>
           THEN append_path(setdefault(file_groups, prefix), prefix,
                            modality, join(d, fname))
           ELSE file_groups
  ELSE file_groups

\* the for loop over the sorted names
RECURSIVE scan_names(_, _, _, _)
scan_names(file_groups, d, names, modality) ==
  IF names = <<>> THEN file_groups
  ELSE scan_names(scan_entry(file_groups, d, Head(names), modality),
                  d, Tail(names), modality)

\* 'if os.path.isdir(d): for fname in sorted(os.listdir(d)): ...'
scan_dir(file_groups, d, modality) ==
  IF isdir(d) THEN scan_names(file_groups, d, sorted(listdir(d)), modality)
  ELSE file_groups

\* whether group_files_by_turbine_blade raises (os.listdir on a non-directory)
group_files_raises(rgb, thermal) ==
  \/ isdir(rgb) /\ listdir_raises(rgb)
  \/ isdir(thermal) /\ listdir_raises(thermal)

\* the mapping group_files_by_turbine_blade returns: RGB first, then thermal
group_files_by_turbine_blade(rgb, thermal) ==
  scan_dir(scan_dir(<<>>, rgb, "rgb"), thermal, "thermal")

----------------------------------------------------------------------------
\* generate_blade_report: the user message

\* the f-string "Below are {len(paths)} <kind> images for {prefix}:"
text_item(paths, kind, prefix) ==
  [type |-> "text",
   text |-> <<"B","e","l","o","w"," ","a","r","e"," ">> \o str(Len(paths))
            \o <<" ">> \o kind
            \o <<" ","i","m","a","g","e","s"," ","f","o","r"," ">>
            \o prefix \o <<":">>]

\* {"type": "image", "image": path}
image_item(path) == [type |-> "image", image |-> path]

\* the block of one modality emitted even for an empty list
content_block_always(paths, kind, prefix) ==
  <<text_item(paths, kind, prefix)>>
    \o [k \in 1..Len(paths) |-> image_item(paths[k])]

\* 'if paths: append the text item, then one image item per path'
content_block(paths, kind, prefix) ==
  IF paths # <<>>
  THEN <<text_item(paths, kind, prefix)>>
         \o [k \in 1..Len(paths) |-> image_item(paths[k])]
  ELSE <<>>

\* user_content as generate_blade_report builds it
user_content(rgb_image_paths, thermal_image_paths, turbine_blade_prefix) ==
  content_block(rgb_image_paths, <<"R","G","B">>, turbine_blade_prefix)
    \o content_block(thermal_image_paths,
                     <<"t","h","e","r","m","a","l">>, turbine_blade_prefix)

\* What the model may answer. A report is markdown text: a sequence of
\* blocks, each a sequence of tokens ("##" opens a level-2 heading, "**"
\* toggles strong emphasis, anything else is text).
ReportBold == << <<"**", "Severity", "**", ": low">> >>

ReportHeading == << <<"##", "Observed anomalies">>, <<"No damage">> >>

Reports == { ReportBold, ReportHeading }

\* generate_blade_report returns a text, or raises (the model provider fails)
ModelOutcomes ==
  { [raised |-> FALSE, text |-> r] : r \in Reports }
    \cup { [raised |-> TRUE, text |-> <<>>] }

----------------------------------------------------------------------------
\* markdown.markdown and the HTML document. HTML is a sequence of tokens,
\* each a sequence of strings: a tag such as <<"<h2>">>, or a text.

\* the inline pass: "**" opens and closes <strong>
RECURSIVE inline(_, _)
inline(tokens, open) ==
  IF tokens = <<>> THEN <<>>
  ELSE IF Head(tokens) = "**"
       THEN << (IF open THEN <<"</strong>">> ELSE <<"<strong>">>) >>
              \o inline(Tail(tokens), ~open)
       ELSE << <<Head(tokens)>> >> \o inline(Tail(tokens), open)

\* one block: an ATX heading "## text" or a paragraph
block_html(block) ==
  IF block # <<>> /\ Head(block) = "##"
  THEN << <<"<h2>">>, Tail(block), <<"</h2>">> >>
  ELSE << <<"<p>">> >> \o inline(block, FALSE) \o << <<"</p>">> >>

\* markdown.markdown(report): the blocks' HTML joined by newlines
RECURSIVE markdown(_)
markdown(report) ==
  IF report = <<>> THEN <<>>
  ELSE IF Len(report) = 1 THEN block_html(Head(report))
  ELSE block_html(Head(report)) \o << <<"\n">> >> \o markdown(Tail(report))

\* the section with the heading left out
section_html_no_heading(prefix, report_html) ==
  << <<"<div>">> >> \o report_html \o << <<"</div>">> >>

\* f"<h2>Report for {prefix}</h2>\n<div>{report_html}</div>"
section_html(prefix, report_html) ==
  << <<"<h2>">>,
     <<"R","e","p","o","r","t"," ","f","o","r"," ">> \o prefix,
     <<"</h2>">>, <<"\n">>, <<"<div>">> >>
    \o report_html \o << <<"</div>">> >>

\* "\n".join(sections)
RECURSIVE join_sections(_)
join_sections(sections) ==
  IF sections = <<>> THEN <<>>
  ELSE IF Len(sections) = 1 THEN Head(sections)
  ELSE Head(sections) \o << <<"\n">> >> \o join_sections(Tail(sections))

HtmlHead ==
  << <<"<html>">>, <<"\n">>, <<"<head>">>, <<"\n">>,
     <<"<meta charset='UTF-8'>">>, <<"\n">>,
     <<"<title>">>, <<"Turbine Inspection Reports">>, <<"</title>">>, <<"\n">>,
     <<"</head>">>, <<"\n">>, <<"<body>">>, <<"\n">> >>

HtmlFoot == << <<"\n">>, <<"</body>">>, <<"\n">>, <<"</html>">> >>

\* html_content
html_content(sections) == HtmlHead \o join_sections(sections) \o HtmlFoot

----------------------------------------------------------------------------
\* process_turbine_data_to_html

\* what may be at output_file before the run
PriorOutputs ==
  { [exists |-> FALSE, content |-> <<>>],
    [exists |-> TRUE, content |-> << <<"earlier run">> >>] }

Init ==
  /\ fs \in { [d \in {rgb_dir, thermal_dir} |->
                 IF d = rgb_dir THEN r ELSE t] :
              r \in RgbStates, t \in ThermalStates }
  /\ output \in PriorOutputs
  /\ opens = 0
  /\ pc = "start"
  /\ groups = <<>>
  /\ idx = 1
  /\ html_sections = <<>>
  /\ calls = <<>>
  /\ skipped = 0
  /\ error = "none"

\* groups = group_files_by_turbine_blade(rgb_dir, thermal_dir)
GroupFiles ==
  /\ pc = "start"
  /\ IF group_files_raises(rgb_dir, thermal_dir)
     THEN /\ pc' = "aborted"
          /\ error' = "listdir"
          /\ UNCHANGED groups
     ELSE /\ pc' = "loop"
          /\ groups' = group_files_by_turbine_blade(rgb_dir, thermal_dir)
          /\ UNCHANGED error
  /\ UNCHANGED <<fs, output, opens, idx, html_sections, calls, skipped>>

\* the skip test taking a group that lacks either modality for empty
skip_group_either(rgb_files, thermal_files) ==
  rgb_files = <<>> \/ thermal_files = <<>>

\* 'if not rgb_files and not thermal_files: continue'
skip_group(rgb_files, thermal_files) ==
  rgb_files = <<>> /\ thermal_files = <<>>

\* the record of one call of generate_blade_report
CallOf(g, outcome) ==
  [prefix |-> g.prefix, rgb |-> g.rgb, thermal |-> g.thermal,
   content |-> user_content(g.rgb, g.thermal, g.prefix),
   outcome |-> outcome]

\* the loop body writing the document after every section
LoopIterFlushing ==
  /\ pc = "loop"
  /\ idx <= Len(groups)
  /\ LET g == groups[idx]
     IN  IF skip_group(g.rgb, g.thermal)
         THEN /\ idx' = idx + 1
              /\ skipped' = skipped + 1
              /\ UNCHANGED <<pc, html_sections, calls, error, output, opens>>
         ELSE \E outcome \in ModelOutcomes :
                /\ calls' = Append(calls, CallOf(g, outcome))
                /\ IF outcome.raised
                   THEN /\ pc' = "aborted"
                        /\ error' = "model"
                        /\ UNCHANGED <<idx, html_sections, output, opens>>
                   ELSE /\ html_sections' =
                             Append(html_sections,
                                    section_html(g.prefix,
                                                 markdown(outcome.text)))
                        /\ idx' = idx + 1
                        /\ output' = [exists |-> TRUE,
                                      content |-> html_content(html_sections')]
                        /\ opens' = opens + 1
                        /\ UNCHANGED <<pc, error>>
                /\ UNCHANGED skipped
  /\ UNCHANGED <<fs, groups>>

\* one iteration of 'for prefix, paths_dict in groups.items()'
LoopIter ==
  /\ pc = "loop"
  /\ idx <= Len(groups)
  /\ LET g == groups[idx]
     IN  IF skip_group(g.rgb, g.thermal)
         THEN /\ idx' = idx + 1
              /\ skipped' = skipped + 1
              /\ UNCHANGED <<pc, html_sections, calls, error>>
         ELSE \E outcome \in ModelOutcomes :
                /\ calls' = Append(calls, CallOf(g, outcome))
                /\ IF outcome.raised
                   THEN /\ pc' = "aborted"
                        /\ error' = "model"
                        /\ UNCHANGED <<idx, html_sections>>
                   ELSE /\ html_sections' =
                             Append(html_sections,
                                    section_html(g.prefix,
                                                 markdown(outcome.text)))
                        /\ idx' = idx + 1
                        /\ UNCHANGED <<pc, error>>
                /\ UNCHANGED skipped
  /\ UNCHANGED <<fs, groups, output, opens>>

\* after the loop: build html_content, open output_file for writing, write
WriteFile ==
  /\ pc = "loop"
  /\ idx > Len(groups)
  /\ output' = [exists |-> TRUE, content |-> html_content(html_sections)]
  /\ opens' = opens + 1
  /\ pc' = "done"
  /\ UNCHANGED <<fs, groups, idx, html_sections, calls, skipped, error>>

Next == GroupFiles \/ LoopIter \/ WriteFile

Spec == Init /\ [][Next]_vars

----------------------------------------------------------------------------
\* Vocabulary of the properties, stated apart from the operators above

\* how often x occurs in the sequence seq
Occurrences(seq, x) == Cardinality({ k \in 1..Len(seq) : seq[k] = x })

\* group_files_by_turbine_blade has returned
Grouped == pc # "start" /\ error # "listdir"

\* p has the form Turbine-<digits>_<one uppercase letter>
IsIdentifier(p) ==
  /\ Len(p) >= Len(TurbineLiteral) + 3
  /\ IsUpper(p[Len(p)])
  /\ p[Len(p) - 1] = "_"
  /\ \A i \in (Len(TurbineLiteral) + 1)..(Len(p) - 2) : IsDigit(p[i])
  /\ \A i \in 1..Len(TurbineLiteral) : p[i] = TurbineLiteral[i]

\* the lengths n for which the first n characters of fname are an identifier
IdentifierLengths(fname) ==
  { n \in 1..Len(fname) : IsIdentifier(SubSeq(fname, 1, n)) }

StartsWithIdentifier(fname) == IdentifierLengths(fname) # {}

\* the identifier fname starts with
IdentifierOf(fname) ==
  SubSeq(fname, 1, CHOOSE n \in IdentifierLengths(fname) : TRUE)

\* a and b are the same letter in either case, or the same character
SameIgnoringCase(a, b) ==
  \/ a = b
  \/ \E i \in 1..Len(Upper) : {a, b} = {Upper[i], Lower[i]}

\* fname ends with ext, compared case-insensitively
HasExtension(fname, ext) ==
  /\ Len(fname) >= Len(ext)
  /\ \A i \in 1..Len(ext) :
       SameIgnoringCase(fname[Len(fname) - Len(ext) + i], ext[i])

HasImageExtension(fname) ==
  \/ HasExtension(fname, <<".","j","p","g">>)
  \/ HasExtension(fname, <<".","p","n","g">>)

\* the entries the grouper is to keep
Accepted(fname) == StartsWithIdentifier(fname) /\ HasImageExtension(fname)

Dirs == {rgb_dir, thermal_dir}

\* the list of a group that belongs to directory d, and the other one
OwnList(d) == IF d = rgb_dir THEN "rgb" ELSE "thermal"

OtherList(d) == IF d = rgb_dir THEN "thermal" ELSE "rgb"

\* the keys of the mapping, in order
Keys == [k \in 1..Len(groups) |-> groups[k].prefix]

\* path is in some list of some group
InSomeGroup(path) ==
  \E k \in 1..Len(groups) :
    \/ Occurrences(groups[k].rgb, path) > 0
    \/ Occurrences(groups[k].thermal, path) > 0

----------------------------------------------------------------------------
\* C1: every entry whose name starts with Turbine-<digits>_<uppercase letter>
\* and ends, case-insensitively, with .jpg or .png is put in exactly one
\* group, the one keyed by that prefix, exactly once in the list of its own
\* directory and never in the other list.
C1_AcceptedGroupedOnce ==
  Grouped =>
    \A d \in Dirs : \A fname \in fs[d].entries :
      Accepted(fname) =>
        LET identifier == IdentifierOf(fname)
            path == join(d, fname)
        IN  /\ Occurrences(Keys, identifier) = 1
            /\ \A k \in 1..Len(groups) :
                 /\ Occurrences(groups[k][OwnList(d)], path) =
                      (IF groups[k].prefix = identifier THEN 1 ELSE 0)
                 /\ Occurrences(groups[k][OtherList(d)], path) = 0

\* a run over both directories, with an upper-case extension among the
\* entries grouped, and a group holding files of both directories
C1_Witness ==
  /\ pc = "done"
  /\ Name_t6_JPG \in fs[rgb_dir].entries
  /\ InSomeGroup(join(rgb_dir, Name_t6_JPG))
  /\ \E k \in 1..Len(groups) :
       groups[k].rgb # <<>> /\ groups[k].thermal # <<>>

\* C2: an entry whose name does not start with the identifier pattern, or
\* whose extension is not .jpg/.png, is in no list of any group and makes no
\* key (every key is the identifier of an accepted entry), and the grouper
\* raises nothing; in the spec's scenario random.jpg is absent and the only
\* key is Turbine-2_A.
C2_RejectedExcluded ==
  /\ error # "listdir"
  /\ Grouped =>
       /\ \A d \in Dirs : \A fname \in fs[d].entries :
            ~Accepted(fname) => ~InSomeGroup(join(d, fname))
       /\ \A k \in 1..Len(groups) :
            \E d \in Dirs : \E fname \in fs[d].entries :
              Accepted(fname) /\ IdentifierOf(fname) = groups[k].prefix
       /\ (fs[rgb_dir].entries = ScenarioRgb
           /\ fs[thermal_dir].entries = ScenarioThermal)
            => /\ Keys = << <<"T","u","r","b","i","n","e","-","2","_","A">> >>
               /\ ~InSomeGroup(join(rgb_dir, Name_random_jpg))

\* the spec's scenario after grouping
C2_Witness ==
  /\ Grouped
  /\ fs[rgb_dir].entries = ScenarioRgb
  /\ fs[thermal_dir].entries = ScenarioThermal
  /\ Len(groups) = 1
  /\ Len(groups[1].rgb) = 2
  /\ Len(groups[1].thermal) = 1

----------------------------------------------------------------------------
\* The document and the calls

NonEmptyGroup(g) == g.rgb # <<>> \/ g.thermal # <<>>

\* the groups that have at least one file, in mapping order
NonEmptyGroups == SelectSeq(groups, NonEmptyGroup)

\* the number of <h2> elements of an HTML text
H2Count(html) == Occurrences(html, <<"<h2>">>)

\* the section the document is to hold for call c
HeadedSection(c) ==
  << <<"<h2>">>,
     <<"R","e","p","o","r","t"," ","f","o","r"," ">> \o c.prefix,
     <<"</h2>">>, <<"\n">>, <<"<div>">> >>
    \o markdown(c.outcome.text) \o << <<"</div>">> >>

\* the sections of the first n calls, one after the other, newline between
HeadedSections(n) ==
  LET body[k \in 0..n] ==
        IF k = 0 THEN <<>>
        ELSE IF k = 1 THEN HeadedSection(calls[1])
        ELSE body[k - 1] \o << <<"\n">> >> \o HeadedSection(calls[k])
  IN  body[n]

\* the <h2> elements inside the renderings of the first n calls' reports
RenderedH2(n) ==
  LET total[k \in 0..n] ==
        IF k = 0 THEN 0
        ELSE total[k - 1] + H2Count(markdown(calls[k].outcome.text))
  IN  total[n]

\* C3 as stated: on a completed run over N groups that have a file, the
\* document holds exactly N <h2> elements, one per group in iteration order,
\* each followed by the rendering of that group's report, whatever the report.
C3_ExactlyNHeadings ==
  pc = "done" =>
    /\ H2Count(output.content) = Len(NonEmptyGroups)
    /\ Len(calls) = Len(NonEmptyGroups)
    /\ output.content = HtmlHead \o HeadedSections(Len(calls)) \o HtmlFoot

\* C3 as amended: the document is, between head and foot, one section per
\* group that has a file, in iteration order, each '<h2>Report for
\* <prefix></h2>' followed by the <div> holding the rendering of that group's
\* report; its <h2> elements are these N headings plus the <h2> elements
\* the renderings hold (a report with a '##' heading renders one).
C3_SectionPerGroupInOrder ==
  pc = "done" =>
    /\ Len(calls) = Len(NonEmptyGroups)
    /\ \A k \in 1..Len(calls) :
         /\ calls[k].prefix = NonEmptyGroups[k].prefix
         /\ ~calls[k].outcome.raised
    /\ output.content = HtmlHead \o HeadedSections(Len(calls)) \o HtmlFoot
    /\ H2Count(output.content) = Len(calls) + RenderedH2(Len(calls))

\* a completed run over two groups, one report with a '##' heading and one
\* without
C3_Witness ==
  /\ pc = "done"
  /\ Len(calls) >= 2
  /\ \E k \in 1..Len(calls) : calls[k].outcome.text = ReportHeading
  /\ \E k \in 1..Len(calls) : calls[k].outcome.text = ReportBold
  /\ H2Count(output.content) > Len(NonEmptyGroups)

\* C4: when generate_blade_report raises the run aborts there and the file
\* at output_file is never opened or written; the run takes no step after
\* an abort; the file changes in one step only, the write after the last
\* group, which is the first and only open.
C4_NoWriteOnAbort ==
  /\ [](error = "model" => pc = "aborted" /\ opens = 0)
  /\ [][ /\ pc # "aborted"
         /\ (output' # output \/ opens' # opens) =>
              /\ pc = "loop" /\ idx > Len(groups) /\ pc' = "done"
              /\ opens = 0 /\ opens' = 1 ]_vars

\* a run aborted by the model after an earlier group produced a section,
\* with a file of an earlier run at the output path
C4_Witness ==
  /\ pc = "aborted"
  /\ error = "model"
  /\ Len(html_sections) >= 1
  /\ output = [exists |-> TRUE, content |-> << <<"earlier run">> >>]

\* the text "Below are <n> <kind> images for <prefix>:"
BelowAre(n, kind, prefix) ==
  <<"B","e","l","o","w"," ","a","r","e"," ", Digits[n + 1], " ">> \o kind
    \o <<" ","i","m","a","g","e","s"," ","f","o","r"," ">> \o prefix \o <<":">>

\* items first+1 .. first+Len(paths)+1 of content are the text item of the
\* count and one image item per path, in order
BlockAt(content, first, paths, kind, prefix) ==
  /\ content[first + 1].type = "text"
  /\ content[first + 1].text = BelowAre(Len(paths), kind, prefix)
  /\ \A k \in 1..Len(paths) :
       /\ content[first + 1 + k].type = "image"
       /\ content[first + 1 + k].image = paths[k]

\* C5: the user message is the RGB text item and the RGB images in list
\* order if there are RGB paths, then the thermal text item and the thermal
\* images in list order if there are thermal paths; an empty list adds no
\* item at all.
C5_UserContentBlocks ==
  \A c \in 1..Len(calls) :
    LET content == calls[c].content
        rgb == calls[c].rgb
        thermal == calls[c].thermal
        rgbItems == IF rgb = <<>> THEN 0 ELSE Len(rgb) + 1
        thermalItems == IF thermal = <<>> THEN 0 ELSE Len(thermal) + 1
    IN  /\ Len(content) = rgbItems + thermalItems
        /\ rgb # <<>> =>
             BlockAt(content, 0, rgb, <<"R","G","B">>, calls[c].prefix)
        /\ thermal # <<>> =>
             BlockAt(content, rgbItems, thermal,
                     <<"t","h","e","r","m","a","l">>, calls[c].prefix)

\* a call with no RGB path and one thermal path: two items, text then image
C5_Witness ==
  \E c \in 1..Len(calls) :
    /\ calls[c].rgb = <<>>
    /\ Len(calls[c].thermal) = 1
    /\ Len(calls[c].content) = 2
    /\ calls[c].content[1].type = "text"
    /\ calls[c].content[2].type = "image"

\* C6: a directory path that is absent or is no directory contributes no
\* file and raises nothing: without the RGB directory every 'rgb' list is
\* empty, without the thermal directory every 'thermal' list is empty,
\* without both the mapping is empty.
C6_MissingDirectoryIsEmpty ==
  /\ error # "listdir"
  /\ Grouped =>
       /\ fs[rgb_dir].kind # "dir" =>
            \A k \in 1..Len(groups) : groups[k].rgb = <<>>
       /\ fs[thermal_dir].kind # "dir" =>
            \A k \in 1..Len(groups) : groups[k].thermal = <<>>
       /\ (fs[rgb_dir].kind # "dir" /\ fs[thermal_dir].kind # "dir") =>
            groups = <<>>

\* grouping done with the RGB directory absent and thermal files grouped
C6_Witness ==
  /\ Grouped
  /\ fs[rgb_dir].kind = "absent"
  /\ fs[thermal_dir].kind = "dir"
  /\ groups # <<>>
  /\ \A k \in 1..Len(groups) : groups[k].rgb = <<>> /\ groups[k].thermal # <<>>

----------------------------------------------------------------------------
\* The loop over the groups

\* how many calls of generate_blade_report were made for key prefix
CallsFor(prefix) ==
  Cardinality({ c \in 1..Len(calls) : calls[c].prefix = prefix })

\* how many sections carry the heading of key prefix
SectionsFor(prefix) ==
  Cardinality({ k \in 1..Len(html_sections) :
                  html_sections[k][2] =
                    <<"R","e","p","o","r","t"," ","f","o","r"," ">> \o prefix })

EntriesOf(d, prefix) ==
  { fname \in fs[d].entries : Accepted(fname) /\ IdentifierOf(fname) = prefix }

\* every name of the non-empty set A is below every name of B
AllBelow(A, B) == \A a \in A : \A b \in B : a = b \/ StrLess(a, b)

\* the least name of the non-empty set A
Least(A) == CHOOSE a \in A : AllBelow({a}, A)

\* key p is seen before key q: in the RGB scan if p has an RGB entry (before
\* q's first RGB entry, if q has one), else in the thermal scan, where q
\* has no RGB entry either and p's first thermal entry comes first
SeenBefore(p, q) ==
  IF EntriesOf(rgb_dir, p) # {}
  THEN \/ EntriesOf(rgb_dir, q) = {}
       \/ StrLess(Least(EntriesOf(rgb_dir, p)), Least(EntriesOf(rgb_dir, q)))
  ELSE /\ EntriesOf(rgb_dir, q) = {}
       /\ StrLess(Least(EntriesOf(thermal_dir, p)),
                  Least(EntriesOf(thermal_dir, q)))

\* the paths of list are join(d, fname) for ascending names fname
AscendingIn(list, d) ==
  \A i \in 1..Len(list) :
    /\ \E fname \in fs[d].entries : list[i] = join(d, fname)
    /\ i < Len(list) =>
         \E a, b \in fs[d].entries :
           list[i] = join(d, a) /\ list[i + 1] = join(d, b) /\ StrLess(a, b)

\* C8: the keys are in first-seen order, the RGB directory scanned in sorted
\* name order before the thermal directory in sorted name order; each list
\* is in the sorted name order of its directory; reports are generated and
\* sections emitted in key order.
C8_FirstSeenOrder ==
  Grouped =>
    /\ \A i, j \in 1..Len(groups) :
         i < j => SeenBefore(groups[i].prefix, groups[j].prefix)
    /\ \A k \in 1..Len(groups) :
         /\ AscendingIn(groups[k].rgb, rgb_dir)
         /\ AscendingIn(groups[k].thermal, thermal_dir)
    /\ Len(calls) <= Len(groups)
    /\ \A c \in 1..Len(calls) : calls[c].prefix = groups[c].prefix
    /\ Len(html_sections) <= Len(calls)
    /\ \A k \in 1..Len(html_sections) :
         html_sections[k][2] =
           <<"R","e","p","o","r","t"," ","f","o","r"," ">> \o groups[k].prefix

\* a completed run where Turbine-10_B, found in the thermal directory only,
\* comes after Turbine-2_A of the RGB directory although it sorts before it,
\* and the first group's RGB list holds two paths
C8_Witness ==
  /\ pc = "done"
  /\ Len(groups) = 2
  /\ groups[1].prefix = <<"T","u","r","b","i","n","e","-","2","_","A">>
  /\ Len(groups[1].rgb) = 2
  /\ groups[2].prefix = <<"T","u","r","b","i","n","e","-","1","0","_","B">>
  /\ groups[2].rgb = <<>>
  /\ StrLess(groups[2].prefix, groups[1].prefix)
  /\ Len(html_sections) = 2

\* where the blade label of fname begins: after 'Turbine-<digits>_'; 0 when
\* fname does not start that way
LabelStart(fname) ==
  LET first == Len(TurbineLiteral) + 1
      run == IF Len(fname) >= Len(TurbineLiteral)
                /\ SubSeq(fname, 1, Len(TurbineLiteral)) = TurbineLiteral
             THEN DigitRun(fname, first) ELSE 0
  IN  IF run >= 1 /\ first + run <= Len(fname) /\ fname[first + run] = "_"
      THEN first + run + 1
      ELSE 0

\* the blade label of fname: the letters and digits from LabelStart on
BladeLabel(fname) ==
  LET from == LabelStart(fname)
      lens == { n \in 0..(Len(fname) - from + 1) :
                  \A i \in 0..(n - 1) :
                    \/ IsUpper(fname[from + i])
                    \/ IsLower(fname[from + i])
                    \/ IsDigit(fname[from + i]) }
  IN  IF from = 0 THEN <<>>
      ELSE SubSeq(fname, from,
                  from - 1 + (CHOOSE n \in lens : \A other \in lens : other <= n))

IsNumeric(label) == label # <<>> /\ \A i \in 1..Len(label) : IsDigit(label[i])

\* C9 as stated: an image entry whose blade label is longer than one
\* character or is numeric is in no group.
C9_LongOrNumericLabelDropped ==
  Grouped =>
    \A d \in Dirs : \A fname \in fs[d].entries :
      (Len(BladeLabel(fname)) > 1 \/ IsNumeric(BladeLabel(fname)))
        => ~InSomeGroup(join(d, fname))

\* C9 as amended: an entry whose blade label does not begin with an
\* upper-case letter (a numeric label, a lower-case one) is in no group; an
\* image entry whose label is longer than one character and begins with an
\* upper-case letter is not dropped: it is in the group keyed by
\* 'Turbine-<digits>_' and that first letter.
C9_LabelDecidedByFirstCharacter ==
  Grouped =>
    \A d \in Dirs : \A fname \in fs[d].entries :
      LET label == BladeLabel(fname)
      IN  /\ (label # <<>> /\ ~IsUpper(label[1]))
               => ~InSomeGroup(join(d, fname))
          /\ (Len(label) > 1 /\ IsUpper(label[1]) /\ HasImageExtension(fname))
               => \E k \in 1..Len(groups) :
                    /\ groups[k].prefix = SubSeq(fname, 1, LabelStart(fname))
                    /\ Occurrences(groups[k][OwnList(d)], join(d, fname)) = 1

\* grouping done over Turbine-2_AB_x.jpg, which is in group Turbine-2_A, and
\* Turbine-2_1_x.jpg, which is in no group
C9_Witness ==
  /\ Grouped
  /\ fs[rgb_dir].entries = { Name_label_AB, Name_label_1 }
  /\ Len(groups) = 1
  /\ groups[1].prefix = <<"T","u","r","b","i","n","e","-","2","_","A">>
  /\ groups[1].rgb = << join(rgb_dir, Name_label_AB) >>
  /\ ~InSomeGroup(join(rgb_dir, Name_label_1))

\* the number of <div> elements of an HTML text
DivCount(html) == Occurrences(html, <<"<div>">>)

\* C10: every group of the mapping has a path in its 'rgb' or 'thermal'
\* list, so the loop never takes the skip branch, and on a completed run
\* the document has as many sections as the mapping has keys.
C10_NoEmptyGroup ==
  /\ skipped = 0
  /\ Grouped => \A k \in 1..Len(groups) : NonEmptyGroup(groups[k])
  /\ pc = "done" =>
       /\ Len(html_sections) = Len(groups)
       /\ DivCount(output.content) = Len(groups)

\* a completed run over three keys, three sections, nothing skipped
C10_Witness ==
  /\ pc = "done"
  /\ Len(groups) = 3
  /\ Len(html_sections) = 3
  /\ DivCount(output.content) = 3
  /\ skipped = 0

====
